---- MODULE Spec2Model ----
(***************************************************************************)
(* Model of main.py: the daily class-schedule mailer.                      *)
(*                                                                         *)
(* Text is modelled as a sequence of one-character strings, so that        *)
(* str.lower, str.strip, strftime and the regular-expression search are    *)
(* computed and not assumed.  A date is a record [year, month, day]; date  *)
(* arithmetic goes through the proleptic ordinal, as datetime.date does.   *)
(* Column headers are taken as already stripped names.                     *)
(***************************************************************************)
EXTENDS Integers, Sequences, FiniteSets, TLC

VARIABLES
    SEMESTER_START_DATE,    \* module constant of main.py (a date)
    HOLIDAY_WEEKS_MONDAYS,  \* module constant of main.py (a list of dates)
    SEND_EMPTY_EMAIL,       \* module constant of main.py (a flag)
    today,                  \* date.today()
    pc,                     \* position of the run
    excel_file,             \* schedule.xlsx as it is on disk
    df,                     \* the table load_data returned
    daily_classes,          \* main's working table
    current_parity,         \* result of get_academic_week_parity
    exceptions_file,        \* exceptions.json as get_todays_exceptions found it
    exception_rule,         \* result of get_todays_exceptions
    subject,                \* send_email's first argument
    body_html,              \* send_email's second argument
    environ,                \* os.environ as send_email found it
    smtp_server,            \* how the mail relay answers
    sends,                  \* number of calls of send_email
    connections,            \* number of SMTP_SSL connections opened
    outbox,                 \* messages handed to smtp.send_message
    log,                    \* what was printed, in order
    outcome                 \* "running", "returned" or "raised"

vars == <<SEMESTER_START_DATE, HOLIDAY_WEEKS_MONDAYS, SEND_EMPTY_EMAIL, today,
          pc, excel_file, df, daily_classes, current_parity, exceptions_file,
          exception_rule, subject, body_html, environ, smtp_server, sends,
          connections, outbox, log, outcome>>

-----------------------------------------------------------------------------
(* Bounds of the model *)

MaxRows == 2

MaxHolidays == 2

ParityWeeks == 9

-----------------------------------------------------------------------------
(* Text *)

None == <<"None">>

NaN == <<"nan">>

UpperCase ==
    <<"A", "B", "C", "D", "E", "F", "G", "H", "I", "J", "K", "L", "M",
      "N", "O", "P", "Q", "R", "S", "T", "U", "V", "W", "X", "Y", "Z">>

LowerCase ==
    <<"a", "b", "c", "d", "e", "f", "g", "h", "i", "j", "k", "l", "m",
      "n", "o", "p", "q", "r", "s", "t", "u", "v", "w", "x", "y", "z">>

LowerChar(c) ==
    IF \E i \in 1..26 : UpperCase[i] = c
    THEN LowerCase[CHOOSE i \in 1..26 : UpperCase[i] = c]
    ELSE c

lower(s) == [i \in DOMAIN s |-> LowerChar(s[i])]

RECURSIVE lstrip(_)
lstrip(s) == IF s # <<>> /\ Head(s) = " " THEN lstrip(Tail(s)) ELSE s

RECURSIVE rstrip(_)
rstrip(s) ==
    IF s # <<>> /\ s[Len(s)] = " " THEN rstrip(SubSeq(s, 1, Len(s) - 1)) ELSE s

strip(s) == rstrip(lstrip(s))

Digits == <<"0", "1", "2", "3", "4", "5", "6", "7", "8", "9">>

Digit(n) == Digits[n + 1]

Pad2(n) == <<Digit((n \div 10) % 10), Digit(n % 10)>>

Pad4(n) == <<Digit((n \div 1000) % 10), Digit((n \div 100) % 10)>> \o Pad2(n)

-----------------------------------------------------------------------------
(* datetime.date *)

Date(y, m, d) == [year |-> y, month |-> m, day |-> d]

is_leap(y) == y % 4 = 0 /\ (y % 100 # 0 \/ y % 400 = 0)

DAYS_IN_MONTH == <<31, 28, 31, 30, 31, 30, 31, 31, 30, 31, 30, 31>>

DAYS_BEFORE_MONTH == <<0, 31, 59, 90, 120, 151, 181, 212, 243, 273, 304, 334>>

days_before_month(y, m) ==
    DAYS_BEFORE_MONTH[m] + (IF m > 2 /\ is_leap(y) THEN 1 ELSE 0)

days_before_year(y) ==
    (y - 1) * 365 + ((y - 1) \div 4) - ((y - 1) \div 100) + ((y - 1) \div 400)

toordinal(d) == days_before_year(d.year) + days_before_month(d.year, d.month) + d.day

fromordinal(ordinal) ==
    LET n0 == ordinal - 1
        n400 == n0 \div 146097
        na == n0 % 146097
        n100 == na \div 36524
        nb == na % 36524
        n4 == nb \div 1461
        nc == nb % 1461
        n1 == nc \div 365
        n == nc % 365
        year == n400 * 400 + 1 + n100 * 100 + n4 * 4 + n1
        leapyear == n1 = 3 /\ (n4 # 24 \/ n100 = 3)
        month0 == (n + 50) \div 32
        preceding0 == DAYS_BEFORE_MONTH[month0]
                          + (IF month0 > 2 /\ leapyear THEN 1 ELSE 0)
        back == preceding0 > n
        month == IF back THEN month0 - 1 ELSE month0
        preceding == IF back
                     THEN preceding0 - (DAYS_IN_MONTH[month]
                              + (IF month = 2 /\ leapyear THEN 1 ELSE 0))
                     ELSE preceding0
    IN  IF n1 = 4 \/ n100 = 4 THEN Date(year - 1, 12, 31)
        ELSE Date(year, month, n - preceding + 1)

weekday(d) == (toordinal(d) + 6) % 7

MinusDays(d, days) == fromordinal(toordinal(d) - days)

DateLess(a, b) == toordinal(a) < toordinal(b)

DateLeq(a, b) == toordinal(a) <= toordinal(b)

DayNames ==
    << <<"M", "o", "n", "d", "a", "y">>,
       <<"T", "u", "e", "s", "d", "a", "y">>,
       <<"W", "e", "d", "n", "e", "s", "d", "a", "y">>,
       <<"T", "h", "u", "r", "s", "d", "a", "y">>,
       <<"F", "r", "i", "d", "a", "y">>,
       <<"S", "a", "t", "u", "r", "d", "a", "y">>,
       <<"S", "u", "n", "d", "a", "y">> >>

strftime_A(d) == DayNames[weekday(d) + 1]

strftime_Ymd(d) == Pad4(d.year) \o <<"-">> \o Pad2(d.month) \o <<"-">> \o Pad2(d.day)

-----------------------------------------------------------------------------
(* get_academic_week_parity *)

STR_all == <<"a", "l", "l">>

STR_odd == <<"o", "d", "d">>

STR_even == <<"e", "v", "e", "n">>

STR_holiday == <<"h", "o", "l", "i", "d", "a", "y">>

\* Mutant: the date itself, not the Monday of its week.
current_monday_unnormalised(today_date) == today_date

current_monday_of(today_date) == MinusDays(today_date, weekday(today_date))

start_monday_of == MinusDays(SEMESTER_START_DATE, weekday(SEMESTER_START_DATE))

RECURSIVE CountUpTo(_, _)
CountUpTo(hws, monday) ==
    IF hws = <<>> THEN 0
    ELSE (IF DateLeq(Head(hws), monday) THEN 1 ELSE 0) + CountUpTo(Tail(hws), monday)

\* Mutant: every configured holiday week counts, whatever its date.
holidays_passed_all(current_monday) == Len(HOLIDAY_WEEKS_MONDAYS)

holidays_passed_of(current_monday) == CountUpTo(HOLIDAY_WEEKS_MONDAYS, current_monday)

InList(x, list) == \E i \in DOMAIN list : list[i] = x

\* Mutant: holiday weeks do not pause the cycle.
parity_without_pause(today_date) ==
    LET current_monday == current_monday_of(today_date)
        start_monday == start_monday_of
        calendar_weeks_elapsed ==
            (toordinal(current_monday) - toordinal(start_monday)) \div 7
    IN  IF DateLess(current_monday, start_monday) THEN STR_all
        ELSE IF InList(current_monday, HOLIDAY_WEEKS_MONDAYS) THEN STR_holiday
        ELSE IF calendar_weeks_elapsed % 2 # 0 THEN STR_even
        ELSE STR_odd

get_academic_week_parity(today_date) ==
    LET current_monday == current_monday_of(today_date)
        start_monday == start_monday_of
        days_elapsed == toordinal(current_monday) - toordinal(start_monday)
        calendar_weeks_elapsed == days_elapsed \div 7
        holidays_passed == holidays_passed_of(current_monday)
        academic_week_index == calendar_weeks_elapsed - holidays_passed
    IN  IF DateLess(current_monday, start_monday) THEN STR_all
        ELSE IF InList(current_monday, HOLIDAY_WEEKS_MONDAYS) THEN STR_holiday
        ELSE IF academic_week_index % 2 # 0 THEN STR_even
        ELSE STR_odd

-----------------------------------------------------------------------------
(* Values no run has produced yet, and the parts of the state a            *)
(* specification does not use                                              *)

EmptyTable == [columns |-> {}, rows |-> <<>>]

JNull == [t |-> "null"]

ExcelAbsent == [exists |-> FALSE, readable |-> FALSE, columns |-> {}, rows |-> <<>>]

ExceptionsAbsent == [exists |-> FALSE, parses |-> FALSE, data |-> JNull]

NoEnviron == [EMAIL_USER |-> None, EMAIL_PASS |-> None]

ConfiguredStart == Date(2026, 2, 23)

ConfiguredHolidays == <<Date(2026, 4, 13)>>

-----------------------------------------------------------------------------
(* schedule.xlsx and load_data *)

RequiredColumns == {"Day", "WeekType", "Time", "Course", "Room", "Type"}

DayCells == { <<"m", "o", "n", "d", "a", "y">>, <<"T", "u", "e", "s", "d", "a", "y">> }

WeekTypeCells ==
    { <<"a", "l", "l">>, <<" ", "O", "d", "d">>, <<"e", "v", "e", "n">>,
      <<"w", "e", "e", "k", "l", "y">>, NaN }

T1000 == <<"1", "0", ":", "0", "0">>

T1200 == <<"1", "2", ":", "0", "0">>

TimeCells == {T1000, T1200}

CourseCells == { <<"M", "a", "t", "h">>, <<"A", "r", "t">> }

RoomCells == { <<"R", "1">> }

TypeCells == { <<"L", "a", "b">> }

FullRows ==
    [Day : DayCells, WeekType : WeekTypeCells, Time : TimeCells,
     Course : CourseCells, Room : RoomCells, Type : TypeCells]

\* The workbook has every required column, or lacks one of them.
ColumnSets == {RequiredColumns} \cup {RequiredColumns \ {c} : c \in RequiredColumns}

RowsOver(columns) == {[c \in columns |-> r[c]] : r \in FullRows}

SheetsOver(columns, max_rows) == UNION {[1..n -> RowsOver(columns)] : n \in 0..max_rows}

\* The workbooks of at most max_rows rows.
ExcelFiles(max_rows) ==
    {ExcelAbsent,
     [exists |-> TRUE, readable |-> FALSE, columns |-> {}, rows |-> <<>>]}
    \cup UNION {{[exists |-> TRUE, readable |-> TRUE, columns |-> cs, rows |-> rs] :
                    rs \in SheetsOver(cs, max_rows)} : cs \in ColumnSets}

StripCell(cell) == IF cell = NaN THEN NaN ELSE strip(cell)

\* The table load_data returns for a workbook that exists and can be read.
load_data(file) ==
    [columns |-> file.columns,
     rows |-> [i \in DOMAIN file.rows |->
                  [c \in file.columns |-> StripCell(file.rows[i][c])]]]

\* Whether load_data raises: the file is missing, or read_excel fails on it.
load_data_raises(file) == ~file.exists \/ ~file.readable

IsEmpty(table) == table.rows = <<>>

-----------------------------------------------------------------------------
(* send_email *)

Absent(value) == value = None \/ value = <<>>

\* Mutant: the credentials are refused only when both are missing.
credentials_missing_both(email_address, email_password) ==
    Absent(email_address) /\ Absent(email_password)

credentials_missing(email_address, email_password) ==
    Absent(email_address) \/ Absent(email_password)

\* What one call of send_email does: the number of connections it opens,
\* the messages it hands over and what it prints.
send_email(subj, body, env, server) ==
    LET email_address == env.EMAIL_USER
        email_password == env.EMAIL_PASS
        msg == [Subject |-> subj, From |-> email_address, To |-> email_address,
                plain |-> "Your email client does not support HTML.",
                html |-> body]
    IN  IF credentials_missing(email_address, email_password)
        THEN [connects |-> 0, delivered |-> <<>>, printed |-> <<"credentials missing">>]
        ELSE IF server = "ok"
        THEN [connects |-> 1, delivered |-> <<msg>>, printed |-> <<"email sent">>]
        ELSE [connects |-> 1, delivered |-> <<>>, printed |-> <<"failed to send email">>]

CredentialValues(value) == {None, <<>>, value}

Environs ==
    [EMAIL_USER : CredentialValues(<<"u">>), EMAIL_PASS : CredentialValues(<<"p">>)]

\* The relay accepts the message, or refuses the connection, the login or
\* the message.
SmtpServers == {"ok", "connect fails", "login fails", "send fails"}

-----------------------------------------------------------------------------
(* The parts of the state a specification does not use *)

RunIdle ==
    /\ excel_file = ExcelAbsent
    /\ df = EmptyTable
    /\ daily_classes = EmptyTable
    /\ exceptions_file = ExceptionsAbsent
    /\ exception_rule = JNull
    /\ sends = 0
    /\ connections = 0
    /\ outbox = <<>>
    /\ log = <<>>
    /\ outcome = "running"

SendIdle ==
    /\ subject = None
    /\ body_html = None
    /\ environ = NoEnviron
    /\ smtp_server = "ok"

-----------------------------------------------------------------------------
(* The parity calculator on its own: any date of the window, any start     *)
(* date, any list of distinct holiday Mondays                              *)

WindowFirst == toordinal(ConfiguredStart) - 14

WindowLast == toordinal(ConfiguredStart) + 7 * ParityWeeks - 1

WindowDates == {fromordinal(n) : n \in WindowFirst..WindowLast}

WindowMondays == {d \in WindowDates : weekday(d) = 0}

ParityStarts == {ConfiguredStart, Date(2026, 3, 4)}

HolidayLists ==
    {hws \in UNION {[1..n -> WindowMondays] : n \in 0..MaxHolidays} :
        \A i, j \in DOMAIN hws : i # j => hws[i] # hws[j]}

ParityInit ==
    /\ SEMESTER_START_DATE \in ParityStarts
    /\ HOLIDAY_WEEKS_MONDAYS \in HolidayLists
    /\ SEND_EMPTY_EMAIL = FALSE
    /\ today \in WindowDates
    /\ pc = "parity_call"
    /\ current_parity = None
    /\ RunIdle
    /\ SendIdle

ParityCall ==
    /\ pc = "parity_call"
    /\ current_parity' = get_academic_week_parity(today)
    /\ pc' = "parity_done"
    /\ UNCHANGED <<SEMESTER_START_DATE, HOLIDAY_WEEKS_MONDAYS, SEND_EMPTY_EMAIL,
                   today, excel_file, df, daily_classes, exceptions_file,
                   exception_rule, subject, body_html, environ, smtp_server,
                   sends, connections, outbox, log, outcome>>

ParityNext == ParityCall

SpecParity == ParityInit /\ [][ParityNext]_vars

-----------------------------------------------------------------------------
(* exceptions.json and get_todays_exceptions *)

\* A parsed JSON value carries its type: null, num, str, list or obj.
JNum(n) == [t |-> "num", n |-> n]

JStr(s) == [t |-> "str", s |-> s]

JList(items) == [t |-> "list", items |-> items]

JObj(fields) == [t |-> "obj", fields |-> fields]

\* Python's truth value of a parsed JSON value.
Truthy(j) ==
    CASE j.t = "null" -> FALSE
      [] j.t = "num" -> j.n # 0
      [] j.t = "str" -> j.s # <<>>
      [] j.t = "list" -> j.items # <<>>
      [] j.t = "obj" -> DOMAIN j.fields # {}

\* dict.get(key, default)
Get(obj, key, default) ==
    IF key \in DOMAIN obj.fields THEN obj.fields[key] ELSE default

DateIs(entry, today_str) ==
    LET d == Get(entry, "date", JNull)
    IN  d.t = "str" /\ d.s = today_str

\* for entry in data: the first entry whose date is today's, or the
\* AttributeError of entry.get on an entry that is no dict.
RECURSIVE ScanEntries(_, _)
ScanEntries(items, today_str) ==
    IF items = <<>> THEN [raised |-> "", rule |-> JNull]
    ELSE IF Head(items).t # "obj" THEN [raised |-> "AttributeError", rule |-> JNull]
    ELSE IF DateIs(Head(items), today_str) THEN [raised |-> "", rule |-> Head(items)]
    ELSE ScanEntries(Tail(items), today_str)

\* What get_todays_exceptions returns, prints and raises.
get_todays_exceptions(file, today_str) ==
    IF ~file.exists THEN [raised |-> "", rule |-> JNull, printed |-> <<>>]
    ELSE IF ~file.parses
    THEN [raised |-> "", rule |-> JNull, printed |-> <<"warning: JSON file is malformed">>]
    ELSE LET data == file.data
             scan ==
                 CASE data.t = "list" -> ScanEntries(data.items, today_str)
                   [] data.t = "obj" ->
                        [raised |-> IF DOMAIN data.fields = {} THEN "" ELSE "AttributeError",
                         rule |-> JNull]
                   [] data.t = "str" ->
                        [raised |-> IF data.s = <<>> THEN "" ELSE "AttributeError",
                         rule |-> JNull]
                   [] OTHER -> [raised |-> "TypeError", rule |-> JNull]
         IN  [raised |-> scan.raised, rule |-> scan.rule, printed |-> <<>>]

-----------------------------------------------------------------------------
(* Series.str.contains(pattern, case=False, na=False): a regular-expression *)
(* search.  Of the syntax, the model has literals, "." (any character),     *)
(* "+" (one or more of the character before it) and "|" (alternatives);     *)
(* "+" with nothing before it does not compile.                             *)

RECURSIVE Join(_, _)
Join(strings, sep) ==
    IF strings = <<>> THEN <<>>
    ELSE IF Len(strings) = 1 THEN strings[1]
    ELSE strings[1] \o sep \o Join(Tail(strings), sep)

RECURSIVE Alternatives(_)
Alternatives(pattern) ==
    IF \E k \in DOMAIN pattern : pattern[k] = "|"
    THEN LET k == CHOOSE i \in DOMAIN pattern :
                      pattern[i] = "|" /\ \A j \in 1..(i - 1) : pattern[j] # "|"
         IN  <<SubSeq(pattern, 1, k - 1)>>
                 \o Alternatives(SubSeq(pattern, k + 1, Len(pattern)))
    ELSE <<pattern>>

Compiles(pattern) ==
    \A a \in DOMAIN Alternatives(pattern) :
        LET alt == Alternatives(pattern)[a]
        IN  \A i \in DOMAIN alt : alt[i] = "+" => (i > 1 /\ alt[i - 1] # "+")

AtomMatches(atom, text, k) ==
    k <= Len(text) /\ (atom = "." \/ LowerChar(atom) = LowerChar(text[k]))

RECURSIVE MatchHere(_, _, _, _)
MatchHere(alt, i, text, j) ==
    IF i > Len(alt) THEN TRUE
    ELSE IF i + 1 <= Len(alt) /\ alt[i + 1] = "+"
    THEN \E n \in 1..(Len(text) - j + 1) :
             /\ \A k \in j..(j + n - 1) : AtomMatches(alt[i], text, k)
             /\ MatchHere(alt, i + 2, text, j + n)
    ELSE AtomMatches(alt[i], text, j) /\ MatchHere(alt, i + 1, text, j + 1)

RegexSearch(pattern, text) ==
    \E a \in DOMAIN Alternatives(pattern) :
        \E j \in 1..(Len(text) + 1) : MatchHere(Alternatives(pattern)[a], 1, text, j)

-----------------------------------------------------------------------------
(* The exception block of main (main.py:187-200) *)

JStrings(items) == {items[i].s : i \in {k \in DOMAIN items : items[k].t = "str"}}

\* daily_classes[~daily_classes['Time'].isin(cancel_hours)]
cancel_by_hours(table, cancel_hours) ==
    IF ~Truthy(cancel_hours) THEN [raised |-> "", table |-> table]
    ELSE IF "Time" \notin table.columns THEN [raised |-> "KeyError", table |-> table]
    ELSE IF cancel_hours.t # "list" THEN [raised |-> "TypeError", table |-> table]
    ELSE LET keep(row) == row["Time"] \notin JStrings(cancel_hours.items)
         IN  [raised |-> "",
              table |-> [columns |-> table.columns, rows |-> SelectSeq(table.rows, keep)]]

\* '|'.join(cancel_courses): the pattern, or the TypeError of joining what
\* is no sequence of strings.
join_courses(cancel_courses) ==
    CASE cancel_courses.t = "list" ->
            IF \A i \in DOMAIN cancel_courses.items : cancel_courses.items[i].t = "str"
            THEN [raised |-> "",
                  pattern |-> Join([i \in DOMAIN cancel_courses.items |->
                                       cancel_courses.items[i].s], <<"|">>)]
            ELSE [raised |-> "TypeError", pattern |-> <<>>]
      [] cancel_courses.t = "str" ->
            [raised |-> "",
             pattern |-> Join([i \in DOMAIN cancel_courses.s |-> <<cancel_courses.s[i]>>],
                              <<"|">>)]
      [] OTHER -> [raised |-> "TypeError", pattern |-> <<>>]

cancel_by_courses(table, cancel_courses) ==
    IF ~Truthy(cancel_courses) THEN [raised |-> "", table |-> table]
    ELSE LET joined == join_courses(cancel_courses)
         IN  IF joined.raised # "" THEN [raised |-> joined.raised, table |-> table]
             ELSE IF joined.pattern = <<>> THEN [raised |-> "", table |-> table]
             ELSE IF "Course" \notin table.columns
             THEN [raised |-> "KeyError", table |-> table]
             ELSE IF ~Compiles(joined.pattern)
             THEN [raised |-> "re.error", table |-> table]
             ELSE LET keep(row) ==
                          ~(row["Course"] # NaN /\ RegexSearch(joined.pattern, row["Course"]))
                  IN  [raised |-> "",
              table |-> [columns |-> table.columns, rows |-> SelectSeq(table.rows, keep)]]

\* if exception_rule: ... (main.py:187-200)
apply_exception_rule(table, rule) ==
    IF ~Truthy(rule) THEN [raised |-> "", table |-> table, printed |-> <<>>]
    ELSE LET by_hours ==
                 cancel_by_hours(table, Get(rule, "cancel_hours", JList(<<>>)))
             by_courses ==
                 cancel_by_courses(by_hours.table, Get(rule, "cancel_courses", JList(<<>>)))
         IN  IF by_hours.raised # ""
             THEN [raised |-> by_hours.raised, table |-> table,
                   printed |-> <<"found exceptions for today">>]
             ELSE [raised |-> by_courses.raised, table |-> by_courses.table,
                   printed |-> <<"found exceptions for today">>]

\* The date written without zero padding, as a hand-written file may have it.
RECURSIVE Decimal(_)
Decimal(n) == IF n < 10 THEN <<Digit(n)>> ELSE Decimal(n \div 10) \o <<Digit(n % 10)>>

Unpadded(d) == Decimal(d.year) \o <<"-">> \o Decimal(d.month) \o <<"-">> \o Decimal(d.day)

RuleHours(date_str, hours) ==
    JObj([date |-> JStr(date_str), cancel_hours |-> JList(hours)])

RuleCourses(date_str, courses) ==
    JObj([date |-> JStr(date_str), cancel_courses |-> JList(courses)])

RuleBoth(date_str, hours, courses) ==
    JObj([date |-> JStr(date_str), note |-> JStr(<<"n">>),
          cancel_hours |-> JList(hours), cancel_courses |-> JList(courses)])

OtherDay == <<"2", "0", "2", "6", "-", "0", "1", "-", "0", "5">>

\* Override data that is a sequence of records with the expected fields.
WellFormedData(d) ==
    {JList(<<>>),
     JList(<<RuleHours(strftime_Ymd(d), <<JStr(T1000)>>)>>),
     JList(<<RuleCourses(strftime_Ymd(d), <<JStr(<<"m", "a">>)>>)>>),
     JList(<<RuleCourses(strftime_Ymd(d), <<JStr(<<"a", ".">>)>>)>>),
     JList(<<RuleCourses(strftime_Ymd(d), <<JStr(<<"+">>)>>)>>),
     JList(<<RuleHours(OtherDay, <<JStr(T1000)>>),
             RuleBoth(strftime_Ymd(d), <<JStr(T1200)>>, <<JStr(<<"r", "t">>), JStr(<<"x">>)>>)>>),
     JList(<<RuleHours(strftime_Ymd(d), <<JStr(T1000)>>),
             RuleHours(strftime_Ymd(d), <<JStr(T1200)>>)>>),
     JList(<<RuleHours(Unpadded(d), <<JStr(T1000)>>)>>)}

\* Data that parses but is no sequence of records with the expected fields.
MalformedData(d) ==
    {JObj([date |-> JStr(strftime_Ymd(d))]),
     JNum(5),
     JList(<<JStr(<<"x">>)>>),
     JList(<<JObj([date |-> JStr(strftime_Ymd(d)), cancel_hours |-> JStr(T1000)])>>),
     JList(<<JObj([date |-> JStr(strftime_Ymd(d)), cancel_courses |-> JList(<<JNum(5)>>)])>>),
     JList(<<JObj([note |-> JStr(<<"n">>)])>>)}

ExceptionFiles(d) ==
    {ExceptionsAbsent, [exists |-> TRUE, parses |-> FALSE, data |-> JNull]}
    \cup {[exists |-> TRUE, parses |-> TRUE, data |-> x] :
             x \in WellFormedData(d) \cup MalformedData(d)}

-----------------------------------------------------------------------------
(* main, step by step *)

\* A Monday before the semester, a Monday of an odd week, a Tuesday of an
\* even week, the Monday of the holiday week.
RunDates == {Date(2026, 2, 16), Date(2026, 2, 23), Date(2026, 3, 3), Date(2026, 4, 13)}

MainInit ==
    /\ SEMESTER_START_DATE = ConfiguredStart
    /\ HOLIDAY_WEEKS_MONDAYS = ConfiguredHolidays
    /\ SEND_EMPTY_EMAIL \in BOOLEAN
    /\ today \in RunDates
    /\ pc = "load"
    /\ excel_file \in ExcelFiles(MaxRows)
    /\ df = EmptyTable
    /\ daily_classes = EmptyTable
    /\ current_parity = None
    /\ exceptions_file = ExceptionsAbsent
    /\ exception_rule = JNull
    /\ sends = 0
    /\ connections = 0
    /\ outbox = <<>>
    /\ log = <<>>
    /\ outcome = "running"
    /\ SendIdle

\* main calls send_email(subj, body) after printing `printed`.  The
\* credentials and the relay are whatever they are at that moment; the run
\* keeps only what send_email did with them.
CallSendEmail(subj, body, printed) ==
    \E r \in {send_email(subj, body, env, server) :
                 env \in Environs, server \in SmtpServers} :
        /\ subject' = subj
        /\ body_html' = body
        /\ UNCHANGED <<environ, smtp_server>>
        /\ sends' = sends + 1
        /\ connections' = connections + r.connects
        /\ outbox' = outbox \o r.delivered
        /\ log' = log \o printed \o r.printed

NoSendEmail(printed) ==
    /\ log' = log \o printed
    /\ UNCHANGED <<subject, body_html, environ, smtp_server, sends, connections, outbox>>

SendIfEmpty(subj, body, printed) ==
    IF SEND_EMPTY_EMAIL THEN CallSendEmail(subj, body, printed) ELSE NoSendEmail(printed)

Html(text, date_str, table) == [text |-> text, date |-> date_str, table |-> table]

Config == <<SEMESTER_START_DATE, HOLIDAY_WEEKS_MONDAYS, SEND_EMPTY_EMAIL, today, excel_file>>

\* main.py:138-150
LoadData ==
    /\ pc = "load"
    /\ \/ /\ load_data_raises(excel_file)
          /\ log' = log \o <<"processing schedule", "load error">>
          /\ pc' = "done"
          /\ outcome' = "returned"
          /\ df' = df
       \/ /\ ~load_data_raises(excel_file)
          /\ df' = load_data(excel_file)
          /\ log' = log \o <<"processing schedule">>
          /\ pc' = "filter_day"
          /\ outcome' = outcome
    /\ UNCHANGED <<Config, daily_classes, current_parity, exceptions_file,
                   exception_rule, subject, body_html, environ, smtp_server,
                   sends, connections, outbox>>

DayMatches(row, today_day_name) ==
    row["Day"] # NaN /\ lower(row["Day"]) = lower(today_day_name)

RowsOfDay(table, today_day_name) ==
    LET keep(row) == DayMatches(row, today_day_name)
    IN  [columns |-> table.columns, rows |-> SelectSeq(table.rows, keep)]

\* main.py:152-163
FilterByDay ==
    /\ pc = "filter_day"
    /\ \/ /\ "Day" \notin df.columns
          /\ NoSendEmail(<<"Day column not found">>)
          /\ pc' = "done"
          /\ outcome' = "returned"
          /\ daily_classes' = daily_classes
       \/ /\ "Day" \in df.columns
          /\ daily_classes' = RowsOfDay(df, strftime_A(today))
          /\ IF IsEmpty(daily_classes')
             THEN /\ SendIfEmpty(<<"Schedule: Free Day!">>,
                                 Html("No classes today!", None, <<>>),
                                 <<"no classes scheduled">>)
                  /\ pc' = "done"
                  /\ outcome' = "returned"
             ELSE /\ NoSendEmail(<<>>)
                  /\ pc' = "filter_parity"
                  /\ outcome' = outcome
    /\ UNCHANGED <<Config, df, current_parity, exceptions_file, exception_rule>>

WeekTypeMatches(row, parity) ==
    LET week_type == IF row["WeekType"] = NaN THEN STR_all ELSE row["WeekType"]
    IN  lower(week_type) = STR_all \/ lower(week_type) = parity

RowsOfParity(table, parity) ==
    LET keep(row) == WeekTypeMatches(row, parity)
    IN  [columns |-> table.columns, rows |-> SelectSeq(table.rows, keep)]

\* main.py:165-183
FilterByParity ==
    /\ pc = "filter_parity"
    /\ \/ /\ "WeekType" \notin daily_classes.columns
          /\ NoSendEmail(<<"WeekType column not found">>)
          /\ pc' = "done"
          /\ outcome' = "returned"
          /\ UNCHANGED <<daily_classes, current_parity>>
       \/ /\ "WeekType" \in daily_classes.columns
          /\ current_parity' = get_academic_week_parity(today)
          /\ IF current_parity' = STR_holiday
             THEN /\ SendIfEmpty(<<"Schedule: Holiday!">>,
                                 Html("It's a holiday week! No classes.", None, <<>>),
                                 <<"enjoy your holiday">>)
                  /\ pc' = "done"
                  /\ outcome' = "returned"
                  /\ daily_classes' = daily_classes
             ELSE /\ NoSendEmail(<<"current academic week parity">>)
                  /\ daily_classes' = RowsOfParity(daily_classes, current_parity')
                  /\ pc' = "exceptions"
                  /\ outcome' = outcome
    /\ UNCHANGED <<Config, df, exceptions_file, exception_rule>>

\* main.py:185-200, with get_todays_exceptions (main.py:60-77)
ApplyExceptions ==
    /\ pc = "exceptions"
    /\ \E file \in ExceptionFiles(today) :
          LET found == get_todays_exceptions(file, strftime_Ymd(today))
              applied == apply_exception_rule(daily_classes, found.rule)
          IN  /\ exceptions_file' = file
              /\ IF found.raised # ""
                 THEN /\ log' = log \o found.printed \o <<"Traceback", found.raised>>
                      /\ outcome' = "raised"
                      /\ pc' = "done"
                      /\ UNCHANGED <<exception_rule, daily_classes>>
                 ELSE /\ exception_rule' = found.rule
                      /\ IF applied.raised # ""
                         THEN /\ log' = log \o found.printed \o applied.printed
                                            \o <<"Traceback", applied.raised>>
                              /\ outcome' = "raised"
                              /\ pc' = "done"
                              /\ daily_classes' = daily_classes
                         ELSE /\ log' = log \o found.printed \o applied.printed
                              /\ daily_classes' = applied.table
                              /\ pc' = "final"
                              /\ outcome' = outcome
    /\ UNCHANGED <<Config, df, current_parity, subject, body_html, environ,
                   smtp_server, sends, connections, outbox>>

BodyColumns == {"Time", "Course", "Room", "Type"}

\* The rows format_email_body writes, one per class.
format_email_body(classes, date_str) ==
    Html("Schedule for", date_str,
         [i \in DOMAIN classes.rows |->
             <<classes.rows[i]["Time"], classes.rows[i]["Course"],
               classes.rows[i]["Room"], classes.rows[i]["Type"]>>])

\* Whether format_email_body raises KeyError: there is a row to write and a
\* column it reads is not in the table.
format_email_body_raises(classes) ==
    ~IsEmpty(classes) /\ ~(BodyColumns \subseteq classes.columns)

\* main.py:202-210
FinalSend ==
    /\ pc = "final"
    /\ pc' = "done"
    /\ IF IsEmpty(daily_classes)
       THEN /\ SendIfEmpty(<<"Schedule: ", strftime_Ymd(today)>>,
                           Html("No classes to attend today!", None, <<>>),
                           <<"all remaining classes filtered out">>)
            /\ outcome' = "returned"
       ELSE IF format_email_body_raises(daily_classes)
       THEN /\ NoSendEmail(<<"sending email with classes", "Traceback", "KeyError">>)
            /\ outcome' = "raised"
       ELSE /\ CallSendEmail(<<"Uni Schedule for ", strftime_Ymd(today)>>,
                             format_email_body(daily_classes, strftime_Ymd(today)),
                             <<"sending email with classes">>)
            /\ outcome' = "returned"
    /\ UNCHANGED <<Config, df, daily_classes, current_parity, exceptions_file,
                   exception_rule>>

Next == LoadData \/ FilterByDay \/ FilterByParity \/ ApplyExceptions \/ FinalSend

Spec == MainInit /\ [][Next]_vars

-----------------------------------------------------------------------------
(* send_email on its own: any of main's four calls, any credentials, any   *)
(* answer of the relay                                                     *)

SendCalls ==
    UNION {{[subject |-> <<"Schedule: Free Day!">>,
             body |-> Html("No classes today!", None, <<>>)],
            [subject |-> <<"Schedule: Holiday!">>,
             body |-> Html("It's a holiday week! No classes.", None, <<>>)],
            [subject |-> <<"Schedule: ", strftime_Ymd(d)>>,
             body |-> Html("No classes to attend today!", None, <<>>)]}
           \cup {[subject |-> <<"Uni Schedule for ", strftime_Ymd(d)>>,
                  body |-> format_email_body([columns |-> RequiredColumns, rows |-> <<r>>],
                                             strftime_Ymd(d))] : r \in FullRows}
           : d \in RunDates}

SendInit ==
    /\ SEMESTER_START_DATE = ConfiguredStart
    /\ HOLIDAY_WEEKS_MONDAYS = ConfiguredHolidays
    /\ SEND_EMPTY_EMAIL = FALSE
    /\ today = ConfiguredStart
    /\ pc = "send_call"
    /\ current_parity = None
    /\ RunIdle
    /\ \E call \in SendCalls : subject = call.subject /\ body_html = call.body
    /\ environ \in Environs
    /\ smtp_server \in SmtpServers

\* main.py:113-135
SendEmailCall ==
    /\ pc = "send_call"
    /\ LET r == send_email(subject, body_html, environ, smtp_server)
       IN  /\ sends' = sends + 1
           /\ connections' = connections + r.connects
           /\ outbox' = outbox \o r.delivered
           /\ log' = log \o r.printed
    /\ pc' = "send_done"
    /\ outcome' = "returned"
    /\ UNCHANGED <<Config, df, daily_classes, current_parity, exceptions_file,
                   exception_rule, subject, body_html, environ, smtp_server>>

SendNext == SendEmailCall

SpecSend == SendInit /\ [][SendNext]_vars

-----------------------------------------------------------------------------
(* Claims about the parity calculator (checked under SpecParity)           *)

\* Ordinal 1 (0001-01-01) is a Monday: the Monday of the week of ordinal n.
WeekMondayOrd(n) == n - ((n - 1) % 7)

HolidayOrds == {toordinal(HOLIDAY_WEEKS_MONDAYS[i]) : i \in DOMAIN HOLIDAY_WEEKS_MONDAYS}

\* The 7-step algorithm of the design, over week-Monday ordinals.
ReferenceParity(t) ==
    LET tm == WeekMondayOrd(toordinal(t))
        sm == WeekMondayOrd(toordinal(SEMESTER_START_DATE))
        weeks == (tm - sm) \div 7
        passed == Cardinality({h \in HolidayOrds : h <= tm})
    IN  IF tm < sm THEN STR_all
        ELSE IF tm \in HolidayOrds THEN STR_holiday
        ELSE IF (weeks - passed) % 2 = 0 THEN STR_odd
        ELSE STR_even

ConfiguredCalendar ==
    /\ SEMESTER_START_DATE = ConfiguredStart
    /\ HOLIDAY_WEEKS_MONDAYS = ConfiguredHolidays

\* C1: for every input date get_academic_week_parity returns the label of
\* the reference algorithm ("all" before the start week, "holiday" in a
\* holiday week, otherwise "odd"/"even" by the parity of calendar weeks
\* elapsed minus holidays passed); with start 2026-02-23 and holiday
\* 2026-04-13 it gives odd, even, holiday, even for 2026-02-23, 2026-03-02,
\* 2026-04-13 and 2026-04-20.
C1_ParityIsReference ==
    pc = "parity_done" =>
        /\ current_parity = ReferenceParity(today)
        /\ ConfiguredCalendar =>
              /\ today = Date(2026, 2, 23) => current_parity = STR_odd
              /\ today = Date(2026, 3, 2) => current_parity = STR_even
              /\ today = Date(2026, 4, 13) => current_parity = STR_holiday
              /\ today = Date(2026, 4, 20) => current_parity = STR_even

C1_Witness ==
    /\ pc = "parity_done"
    /\ ConfiguredCalendar
    /\ today = Date(2026, 4, 20)
    /\ current_parity = STR_even

\* Week-Mondays (as ordinals) of the non-holiday weeks from the semester
\* start week up to, not including, the week of Monday ordinal m.
EarlierTeachingWeeks(m) ==
    LET sm == WeekMondayOrd(toordinal(SEMESTER_START_DATE))
    IN  {sm + 7 * k : k \in 0..(((m - sm) \div 7) - 1)} \ HolidayOrds

\* The holiday-adjusted index of the week of Monday ordinal m, counted
\* directly: the number of teaching weeks before it.
AdjustedIndex(m) == Cardinality(EarlierTeachingWeeks(m))

LastTeachingWeek(m) ==
    CHOOSE w \in EarlierTeachingWeeks(m) : \A v \in EarlierTeachingWeeks(m) : v <= w

\* C2: from the semester start week onward the label alternates strictly
\* between "odd" and "even" across consecutive non-holiday weeks (holiday
\* weeks in between do not advance the cycle), and two non-holiday weeks
\* get the same label exactly when their adjusted indices have the same
\* parity.
C2_ParityAlternates ==
    (pc = "parity_done" /\ current_parity \in {STR_odd, STR_even}) =>
        LET cm == WeekMondayOrd(toordinal(today))
        IN  /\ EarlierTeachingWeeks(cm) # {} =>
                 LET before == get_academic_week_parity(fromordinal(LastTeachingWeek(cm)))
                 IN  /\ before \in {STR_odd, STR_even}
                     /\ before # current_parity
            /\ \A w \in EarlierTeachingWeeks(cm) :
                 (AdjustedIndex(w) % 2 = AdjustedIndex(cm) % 2)
                     <=> (get_academic_week_parity(fromordinal(w)) = current_parity)

\* The first teaching week after a holiday week, with a teaching week before it.
C2_Witness ==
    /\ pc = "parity_done"
    /\ current_parity \in {STR_odd, STR_even}
    /\ (WeekMondayOrd(toordinal(today)) - 7) \in HolidayOrds
    /\ EarlierTeachingWeeks(WeekMondayOrd(toordinal(today))) # {}
    /\ weekday(today) = 3

InHolidayWeek(t) ==
    \E i \in DOMAIN HOLIDAY_WEEKS_MONDAYS :
        /\ toordinal(HOLIDAY_WEEKS_MONDAYS[i]) <= toordinal(t)
        /\ toordinal(t) <= toordinal(HOLIDAY_WEEKS_MONDAYS[i]) + 6

BeforeStartWeek(t) ==
    WeekMondayOrd(toordinal(t)) < WeekMondayOrd(toordinal(SEMESTER_START_DATE))

\* C3 as stated: every date from a configured holiday Monday through the
\* following Sunday gets "holiday", also when that week is before the
\* semester start week.
C3_HolidayWeekAlways ==
    (pc = "parity_done" /\ InHolidayWeek(today)) => current_parity = STR_holiday

\* C3, amended: every date from a configured holiday Monday through the
\* following Sunday gets "holiday" when that week is not before the semester
\* start week, and "all" when it is.
C3_HolidayWeekFromStart ==
    (pc = "parity_done" /\ InHolidayWeek(today)) =>
        current_parity = (IF BeforeStartWeek(today) THEN STR_all ELSE STR_holiday)

\* A Sunday of a holiday week of the semester.
C3_Witness ==
    /\ pc = "parity_done"
    /\ InHolidayWeek(today)
    /\ ~BeforeStartWeek(today)
    /\ weekday(today) = 6
    /\ current_parity = STR_holiday

-----------------------------------------------------------------------------
(* Claims about the pipeline of main (checked under Spec)                  *)

Printed(tag) == InList(tag, log)

\* The rows of the table whose Day is today's weekday, in the table's order.
TodaysRows == RowsOfDay(df, strftime_A(today)).rows

\* The parity step has run and kept the run going.
AfterParityStep == pc = "exceptions"

\* WeekType normalised to all / odd / even; missing and unrecognised
\* values count as "all".
NormalisedWeekType(cell) ==
    IF cell = NaN THEN STR_all
    ELSE IF lower(cell) \in {STR_all, STR_odd, STR_even} THEN lower(cell)
    ELSE STR_all

Recognised(cell) == cell # NaN /\ lower(cell) \in {STR_all, STR_odd, STR_even}

\* C4: before the semester start week (parity "all") the parity step keeps
\* every entry of today's weekday, whatever its WeekType (all, odd or even).
C4_PreSemesterKeepsEveryClass ==
    (AfterParityStep /\ BeforeStartWeek(today)) =>
        /\ current_parity = STR_all
        /\ \A i \in DOMAIN TodaysRows :
               Recognised(TodaysRows[i]["WeekType"])
                   => InList(TodaysRows[i], daily_classes.rows)

\* C5: in the parity step an entry of today's weekday is kept if and only
\* if its WeekType, normalised to all / odd / even with missing and
\* unrecognised values taken as "all", is "all" or the computed parity.
C5_KeptIffNormalisedMatches ==
    AfterParityStep =>
        LET keep(row) ==
                \/ NormalisedWeekType(row["WeekType"]) = STR_all
                \/ NormalisedWeekType(row["WeekType"]) = current_parity
        IN  daily_classes.rows = SelectSeq(TodaysRows, keep)

AllColumns == RequiredColumns \subseteq df.columns

\* Plain, case-insensitive substring test.
Contains(text, part) ==
    \E j \in 1..(Len(text) + 1) :
        /\ j + Len(part) - 1 <= Len(text)
        /\ \A i \in DOMAIN part : LowerChar(part[i]) = LowerChar(text[j + i - 1])

\* The rule for today in a well-formed file: the first record with today's date.
RulesForToday ==
    LET items == exceptions_file.data.items
    IN  {k \in DOMAIN items : Get(items[k], "date", JNull) = JStr(strftime_Ymd(today))}

RuleForToday ==
    exceptions_file.data.items[CHOOSE k \in RulesForToday : \A m \in RulesForToday : k <= m]

WellFormedExceptions ==
    /\ exceptions_file.exists
    /\ exceptions_file.parses
    /\ exceptions_file.data \in WellFormedData(today)

\* The list the parity step left.
ParityFiltered == RowsOfParity(RowsOfDay(df, strftime_A(today)), current_parity).rows

ExpectedAfterRule ==
    IF RulesForToday = {} THEN ParityFiltered
    ELSE LET hours == JStrings(Get(RuleForToday, "cancel_hours", JList(<<>>)).items)
             courses == JStrings(Get(RuleForToday, "cancel_courses", JList(<<>>)).items)
             keep(row) ==
                 /\ row["Time"] \notin hours
                 /\ ~(row["Course"] # NaN
                        /\ \E part \in courses : Contains(row["Course"], part))
         IN  SelectSeq(ParityFiltered, keep)

\* C6: with a rule for today the final list is the parity-filtered list
\* minus the entries whose Time is in cancel_hours and minus those whose
\* Course contains, case-insensitively, a pattern of cancel_courses, in
\* the original order; with no rule for today the list is unchanged.
C6_RuleRemovesExactly ==
    (AllColumns /\ WellFormedExceptions) =>
        /\ outcome # "raised"
        /\ pc = "final" => daily_classes.rows = ExpectedAfterRule

BadSource ==
    \/ ~excel_file.exists
    \/ ~excel_file.readable
    \/ ~(RequiredColumns \subseteq excel_file.columns)

\* C7: when the schedule source is absent, unreadable or lacks a required
\* column, the run prints a diagnostic and aborts before any filtering: no
\* send, no uncaught exception, main returns normally.
C7_BadSourceAborts ==
    (pc = "done" /\ BadSource) =>
        /\ outcome = "returned"
        /\ sends = 0
        /\ daily_classes = EmptyTable
        /\ \/ Printed("load error")
           \/ Printed("Day column not found")
           \/ Printed("WeekType column not found")

\* main has called get_todays_exceptions.
ExceptionsConsulted ==
    \/ pc = "final"
    \/ pc = "done" /\ Printed("current academic week parity")

MalformedExceptions ==
    /\ exceptions_file.exists
    /\ \/ ~exceptions_file.parses
       \/ exceptions_file.data \notin WellFormedData(today)

\* C8: a malformed exceptions source gives a warning and no rule and the
\* run goes on to the send step; an absent one gives no rule and no error;
\* no override input ends the run in an uncaught exception.
C8_MalformedOverridesIgnored ==
    ExceptionsConsulted =>
        /\ outcome # "raised" \/ Printed("sending email with classes")
        /\ MalformedExceptions =>
              /\ exception_rule = JNull
              /\ Printed("warning: JSON file is malformed")
        /\ ~exceptions_file.exists => exception_rule = JNull

EmptyOutcome ==
    \/ Printed("no classes scheduled")
    \/ Printed("enjoy your holiday")
    \/ Printed("all remaining classes filtered out")

\* C9: in a run that loads the table, send_email is called at most once:
\* exactly once when the final list is not empty, and on an empty outcome
\* once if SEND_EMPTY_EMAIL is set and not at all if it is not.
C9_SendsOncePerRun ==
    (pc = "done" /\ ~load_data_raises(excel_file)) =>
        /\ sends <= 1
        /\ Printed("sending email with classes") => sends = 1
        /\ EmptyOutcome => sends = (IF SEND_EMPTY_EMAIL THEN 1 ELSE 0)

-----------------------------------------------------------------------------
(* Claim about send_email (checked under SpecSend)                         *)

CredentialMissing ==
    \/ environ.EMAIL_USER \in {None, <<>>}
    \/ environ.EMAIL_PASS \in {None, <<>>}

\* C10: send_email never propagates a failure.  With a credential missing
\* or empty it prints an error and opens no connection; when connecting,
\* logging in or sending fails it prints the failure, does not retry, and
\* returns; a message is handed over only when the relay accepts it.
C10_SendNeverPropagates ==
    pc = "send_done" =>
        /\ outcome = "returned"
        /\ sends = 1
        /\ IF CredentialMissing
           THEN connections = 0 /\ outbox = <<>> /\ log = <<"credentials missing">>
           ELSE /\ connections = 1
                /\ IF smtp_server = "ok"
                   THEN /\ log = <<"email sent">>
                        /\ Len(outbox) = 1
                        /\ outbox[1].From = environ.EMAIL_USER
                        /\ outbox[1].To = environ.EMAIL_USER
                   ELSE log = <<"failed to send email">> /\ outbox = <<>>

\* The password is set and the user name is empty.
C10_Witness ==
    /\ pc = "send_done"
    /\ environ.EMAIL_USER = <<>>
    /\ environ.EMAIL_PASS = <<"p">>
    /\ connections = 0
    /\ log = <<"credentials missing">>

====
